---- MODULE Spec2Model ----
(***************************************************************************)
(* Model of the sharded random-access layer of dival's LoDoPaBDataset      *)
(* (src/dival/datasets/lodopab_dataset.py): get_sample, get_samples and    *)
(* the observation transform selected by __get_observation_trafo.          *)
(*                                                                         *)
(* Values.  One sample is abstracted to one pixel.  A pixel value is a     *)
(* record [fld, tag, idx, n]: the field it was stored under, what it is    *)
(* ("raw" = the value stored for sample idx, "zero", "postfloor",          *)
(* "prefloor", or uninitialised memory "junkA"/"junkB") and the number n   *)
(* of times  x -> exp(-x * MU_MAX)  has been applied to it.                *)
(*                                                                         *)
(* Magnitudes.  Writing t = x * MU_MAX, the transform compares x with      *)
(* thres0, i.e. t with 9.47.  The stored data of the model is chosen in    *)
(* three classes that exp(-t) permutes: "tiny" (t < 2.15), "mid"           *)
(* (3.64 <= t < 9.47) and "big" (t >= 9.47, a zero-photon pixel):          *)
(* exp(-t) of a tiny value is big, of a mid or big value is tiny.          *)
(*                                                                         *)
(* min_photon_count is kept in tenths of a photon; None is <<>>.           *)
(*                                                                         *)
(* The constructor's dataset check and download loop, and the generator,   *)
(* are modelled over a disk of storage roots.  The result table of         *)
(* src/evaluation.py is modelled with its list objects, so that two        *)
(* entries of measure_values may be the same list.                         *)
(***************************************************************************)
EXTENDS Integers, Sequences, FiniteSets, TLC

VARIABLES
    num_samples_per_file, \* NUM_SAMPLES_PER_FILE of this instance
    len_part,             \* self.get_len(part)
    post_log,             \* self.post_log
    min_photon_count,     \* self.min_photon_count: <<>> (None) or <<tenths>>
    missing,              \* shard files absent under DATA_PATH: {<<fld, i>>}
    pc,                   \* caller: "idle" or "returned"
    call,                 \* arguments of the last call
    result,               \* "ok" or the exception class the call raised
    site,                 \* statement that raised ("" when result = "ok")
    obs_arr,              \* observation array of the last call
    gt_arr,               \* ground truth array of the last call
    events,               \* file opens/closes and transform runs of the call
    range_files,          \* shard ids planned by the last get_samples
    slices_files,         \* intra-shard slices planned by the last get_samples
    slices_data,          \* destination slices planned by the last get_samples
    DATA_PATH,            \* the module's storage root
    disk,                 \* what each storage root holds
    args,                 \* arguments LoDoPaBDataset(...) was called with
    answers,              \* the user's answers to the constructor's prompts
    reconstructions,      \* EvaluationResultTable.reconstructions
    test_data,            \* EvaluationResultTable.test_data
    measure_values,       \* EvaluationResultTable.measure_values: list ids
    lists                 \* the list objects measure_values refers to

construction == <<DATA_PATH, disk, args, answers>>

evaluation == <<reconstructions, test_data, measure_values, lists>>

vars == <<num_samples_per_file, len_part, post_log, min_photon_count, missing,
          pc, call, result, site, obs_arr, gt_arr, events,
          range_files, slices_files, slices_data, construction, evaluation>>

config == <<num_samples_per_file, len_part, post_log, min_photon_count,
            missing>>

(***************************************************************************)
(* Bounds of the model.                                                    *)
(***************************************************************************)
SmallShardSize == 2   \* the scaled-down shard size of Spec
MaxStep == 2          \* largest step of a key of Spec
MaxExtraRows == 1     \* rows a caller's buffer may have beyond len(range_)
MaxRepeats == 2       \* repetitions of a call with the same buffers
MaxShardSize == 4     \* SpecLocator: shard sizes 1..MaxShardSize
MaxLen == 9           \* SpecLocator: partition lengths 1..MaxLen
MaxLocStep == 5       \* SpecLocator: steps 1..MaxLocStep
MaxPrompts == 2       \* SpecConstruct: prompts the user answers
MaxTasks == 2         \* SpecEval: tasks of a task table, entries of a result table
MaxValues == 3        \* SpecEval: values one list of measure values may hold

(***************************************************************************)
(* Program constants.                                                      *)
(***************************************************************************)
NUM_SAMPLES_PER_FILE == 128
ORIG_MIN_PHOTON_COUNT == 1

None == <<>>
Some(x) == <<x>>
Min(a, b) == IF a < b THEN a ELSE b
Max(a, b) == IF a > b THEN a ELSE b
\* math.ceil(a / b) for b > 0
Ceil(a, b) == -((-a) \div b)

(***************************************************************************)
(* Python range objects: len(r), r[0], r[-1], list(r).                     *)
(***************************************************************************)
Range(a, b, s) == [start |-> a, stop |-> b, step |-> s]

RangeLen(r) ==
    IF r.step > 0
    THEN (IF r.stop > r.start THEN Ceil(r.stop - r.start, r.step) ELSE 0)
    ELSE (IF r.start > r.stop THEN Ceil(r.start - r.stop, -r.step) ELSE 0)

RangeFirst(r) == r.start
RangeLast(r) == r.start + (RangeLen(r) - 1) * r.step
RangeList(r) == [k \in 1..RangeLen(r) |-> r.start + (k - 1) * r.step]

(***************************************************************************)
(* Shard files.  Shard i of a field holds the samples                      *)
(* i*NUM_SAMPLES_PER_FILE ... of the partition; the last shard holds the   *)
(* residual.                                                               *)
(***************************************************************************)
NumFiles == Ceil(len_part, num_samples_per_file)
FileExists(fld, i) == i >= 0 /\ i < NumFiles /\ <<fld, i>> \notin missing
ShardRows(i) ==
    IF i >= 0 /\ i < NumFiles
    THEN Min(num_samples_per_file, len_part - i * num_samples_per_file)
    ELSE 0

Val(f, t, i, k) == [fld |-> f, tag |-> t, idx |-> i, n |-> k]
Stored(fld, k) == Val(fld, "raw", k, 0)
Zero(fld) == Val(fld, "zero", 0, 0)
JunkFills == {"junkA", "junkB"}

\* rows a Python/h5py slice(s, e, st) selects of an axis of length n
SliceOffsets(s, e, st, n) ==
    LET hi == Min(e, n)
        cnt == IF hi > s THEN Ceil(hi - s, st) ELSE 0
    IN [k \in 1..cnt |-> s + (k - 1) * st]

(***************************************************************************)
(* Observation transform (__get_observation_trafo).                        *)
(***************************************************************************)
StoredClass(k) == IF k % 3 = 1 THEN "big" ELSE IF k % 3 = 2 THEN "mid" ELSE "tiny"

\* -log(min_photon_count / PHOTONS_PER_PIXEL) / MU_MAX >= thres0
\* iff min_photon_count^2 <= ORIG_MIN_PHOTON_COUNT * 1 (here in tenths)
PostFloorClass ==
    IF min_photon_count # None
       /\ min_photon_count[1] * min_photon_count[1] <= 10 * ORIG_MIN_PHOTON_COUNT
    THEN "big" ELSE "mid"

BaseClass(v) ==
    CASE v.tag = "raw" -> StoredClass(v.idx)
      [] v.tag = "zero" -> "tiny"
      [] v.tag = "postfloor" -> PostFloorClass
      [] v.tag = "prefloor" -> "tiny"
      [] v.tag = "junkA" -> "tiny"
      [] OTHER -> "big"

ExpClass(c) == IF c = "tiny" THEN "big" ELSE "tiny"

Class(v) ==
    IF v.n = 0 THEN BaseClass(v)
    ELSE IF v.n % 2 = 1 THEN ExpClass(BaseClass(v))
    ELSE ExpClass(ExpClass(BaseClass(v)))

\* np.greater_equal(obs, thres0)
GreaterEqualThres0(v) == Class(v) = "big"

\* obs *= MU_MAX; np.exp(-obs, out=obs)
Exp(v) == [v EXCEPT !.n = @ + 1]

PostFloor == Val("obs", "postfloor", 0, 0)
PreFloor == Val("obs", "prefloor", 0, 0)

DefaultFloor ==
    min_photon_count = None \/ min_photon_count[1] = ORIG_MIN_PHOTON_COUNT

\* shape of the mask allocated for num_samples (<<>> is one sample's shape)
MaskShape(num_samples) == IF num_samples = 1 THEN <<>> ELSE <<num_samples>>

\* observation_trafo with the mask computed after the exponentiation
TrafoPixelMaskAfterExp(v) ==
    IF DefaultFloor
    THEN (IF post_log THEN v ELSE Exp(v))
    ELSE IF post_log
         THEN (IF GreaterEqualThres0(v) THEN PostFloor ELSE v)
         ELSE (IF GreaterEqualThres0(Exp(v)) THEN PreFloor ELSE Exp(v))

\* observation_trafo applied to one pixel, mask computed on the raw value
TrafoPixel(v) ==
    IF DefaultFloor
    THEN (IF post_log THEN v ELSE Exp(v))
    ELSE IF post_log
         THEN (IF GreaterEqualThres0(v) THEN PostFloor ELSE v)
         ELSE (IF GreaterEqualThres0(v) THEN PreFloor ELSE Exp(v))

\* __get_observation_trafo(num_samples)(arr): [ok, rows]; ok is FALSE when
\* np.greater_equal(obs, thres0, out=mask) rejects the mask's shape
ObservationTrafo(arr, num_samples) ==
    IF ~DefaultFloor /\ MaskShape(num_samples) # arr.shape
    THEN [ok |-> FALSE, rows |-> arr.rows]
    ELSE [ok |-> TRUE,
          rows |-> [k \in 1..Len(arr.rows) |-> TrafoPixel(arr.rows[k])]]

(***************************************************************************)
(* Arrays and events.                                                      *)
(***************************************************************************)
Arr(k, sh, rs) == [kind |-> k, shape |-> sh, rows |-> rs]
NoArr == Arr("None", <<>>, <<>>)
Fill(v, cnt) == [k \in 1..cnt |-> v]

Ev(e, f, i, s) == [ev |-> e, fld |-> f, file |-> i, slc |-> s]

Raise(exc, at, obs, gt, ev, plan) ==
    [result |-> exc, site |-> at, obs_arr |-> obs, gt_arr |-> gt,
     events |-> ev, plan |-> plan]

\* what of an array the caller still holds after the call raised
Kept(arr) == IF arr.kind = "out" THEN arr ELSE NoArr

(***************************************************************************)
(* get_samples: key normalisation and the shard plan.                      *)
(***************************************************************************)
\* slice or range -> range_ (None step and step 0 of a slice become 1)
NormalizeKey(key) ==
    IF key.type = "slice"
    THEN LET key_start == IF key.start = None THEN 0
                          ELSE IF key.start[1] >= 0 THEN key.start[1]
                          ELSE Max(0, len_part + key.start[1])
             key_stop == IF key.stop = None THEN len_part
                         ELSE IF key.stop[1] >= 0 THEN key.stop[1]
                         ELSE Max(0, len_part + key.stop[1])
             step == IF key.step = None \/ key.step[1] = 0 THEN 1
                     ELSE key.step[1]
         IN Range(key_start, key_stop, step)
    ELSE Range(key.start[1], key.stop[1], key.step[1])

\* the step check made only for ranges that select something
StepUnsupportedNonEmpty(range_) == range_.step < 0 /\ RangeLen(range_) > 0

\* "if range_.step < 0: raise ValueError"
StepUnsupported(range_) == range_.step < 0

\* "if range_[-1] >= len_part: raise IndexError"
KeyOutOfBounds(range_) == RangeLast(range_) >= len_part

FirstFile(range_) == RangeFirst(range_) \div num_samples_per_file
LastFile(range_) == RangeLast(range_) \div num_samples_per_file

\* SliceStart with the congruence taken modulo the shard size
SliceStartModShard(range_, i) ==
    IF i = FirstFile(range_)
    THEN range_.start % num_samples_per_file
    ELSE (range_.start - i * num_samples_per_file) % num_samples_per_file

\* start of the slice of shard i
SliceStart(range_, i) ==
    IF i = FirstFile(range_)
    THEN range_.start % num_samples_per_file
    ELSE (range_.start - i * num_samples_per_file) % range_.step

\* stop of the slice of shard i
SliceStop(range_, i) ==
    IF i = LastFile(range_)
    THEN (RangeLast(range_) % num_samples_per_file) + 1
    ELSE LET next_start == (range_.start - (i + 1) * num_samples_per_file)
                               % range_.step
         IN ((next_start - range_.step) % num_samples_per_file) + 1

\* len_slice = ceil((s.stop - s.start) / s.step)
LenSlice(range_, i) ==
    Ceil(SliceStop(range_, i) - SliceStart(range_, i), range_.step)

RECURSIVE DataCount(_, _)
\* data_count when the loop reaches shard i
DataCount(range_, i) ==
    IF i <= FirstFile(range_) THEN 0
    ELSE DataCount(range_, i - 1) + LenSlice(range_, i - 1)

\* the loop "for i in range_files": one entry per shard, in shard order
Plan(range_) ==
    LET first == FirstFile(range_)
        cnt == LastFile(range_) - first + 1
    IN [j \in 1..cnt |->
          LET i == first + j - 1
          IN [file |-> i,
              slc_f |-> <<SliceStart(range_, i), SliceStop(range_, i),
                          range_.step>>,
              slc_d |-> <<DataCount(range_, i),
                          DataCount(range_, i) + LenSlice(range_, i)>>]]

NoPlan == <<>>

(***************************************************************************)
(* Shard Store: "with h5py.File(...) as file: file['data'].read_direct".   *)
(***************************************************************************)
\* rows of arr after read_direct(arr, slice(offs), slice(a, a + Len(offs)))
WriteRows(arr, fld, i, offs, a) ==
    [arr EXCEPT !.rows =
        [k \in 1..Len(arr.rows) |->
            IF k > a /\ k <= a + Len(offs)
            THEN Stored(fld, i * num_samples_per_file + offs[k - a])
            ELSE arr.rows[k]]]

\* number of rows the destination selection slice(a, b) has in arr
DestCount(arr, a, b) == Max(0, Min(b, Len(arr.rows)) - a)

\* a block that opens the shard file and does not close it
WithFileLeftOpen(ev, fld, p) == Append(ev, Ev("open", fld, p.file, p.slc_f))

\* events of one "with h5py.File(...) as file:" block on the shard of plan
\* entry p: the file is opened, and closed when the block is left, whether
\* read_direct returned or raised
WithFile(ev, fld, p) ==
    Append(Append(ev, Ev("open", fld, p.file, p.slc_f)),
           Ev("close", fld, p.file, p.slc_f))

RECURSIVE ReadShards(_, _, _, _, _)
\* "for i, slc_f, slc_d in zip(range_files, slices_files, slices_data)" from
\* the j-th entry on: [result, arr, events]
ReadShards(fld, plan, j, arr, ev) ==
    IF j > Len(plan) THEN [result |-> "ok", arr |-> arr, events |-> ev]
    ELSE LET p == plan[j]
             offs == SliceOffsets(p.slc_f[1], p.slc_f[2], p.slc_f[3],
                                  ShardRows(p.file))
             closed == WithFile(ev, fld, p)
         IN IF ~FileExists(fld, p.file)
            THEN [result |-> "FileNotFoundError", arr |-> arr, events |-> ev]
            ELSE IF DestCount(arr, p.slc_d[1], p.slc_d[2]) # Len(offs)
            THEN [result |-> "TypeError", arr |-> arr, events |-> closed]
            ELSE ReadShards(fld, plan, j + 1,
                            WriteRows(arr, fld, p.file, offs, p.slc_d[1]),
                            closed)

(***************************************************************************)
(* The out argument: given = FALSE is out=None (the default); a field's    *)
(* mode is "True", "False" or "buf" (an array of the caller).              *)
(***************************************************************************)
Out(g, o, t) == [given |-> g, obs |-> o, gt |-> t]
OutOmitted == Out(FALSE, "None", "None")

\* Target without the test of the flag's value
TargetIgnoringFlag(mode, buf, new) ==
    IF mode = "buf" THEN buf ELSE new

\* the array a field is read into
Target(mode, buf, new) ==
    IF mode = "True" THEN new ELSE IF mode = "False" THEN NoArr ELSE buf

(***************************************************************************)
(* get_samples(key, part, out)                                             *)
(***************************************************************************)
GetSamplesResult(key, out, obs_in, gt_in, junk) ==
    LET obs0 == IF out.given /\ out.obs = "buf" THEN obs_in ELSE NoArr
        gt0 == IF out.given /\ out.gt = "buf" THEN gt_in ELSE NoArr
    IN
    IF key.type \notin {"slice", "range"}
    THEN Raise("TypeError", "key_type", obs0, gt0, <<>>, NoPlan)
    ELSE LET range_ == NormalizeKey(key) IN
    IF StepUnsupported(range_)
    THEN Raise("ValueError", "negative_step", obs0, gt0, <<>>, NoPlan)
    ELSE IF RangeLen(range_) = 0
    THEN Raise("IndexError", "range_last", obs0, gt0, <<>>, NoPlan)
    ELSE IF KeyOutOfBounds(range_)
    THEN Raise("IndexError", "bounds_check", obs0, gt0, <<>>, NoPlan)
    ELSE IF ~out.given
    THEN Raise("TypeError", "unpack_out", obs0, gt0, <<>>, NoPlan)
    ELSE
    LET plan == Plan(range_)
        cnt == RangeLen(range_)
        obs_a == Target(out.obs, obs_in,
                     Arr("new", <<cnt>>, Fill(Val("obs", junk, 0, 0), cnt)))
        gt_a == Target(out.gt, gt_in,
                     Arr("new", <<cnt>>, Fill(Val("gt", junk, 0, 0), cnt)))
        r1 == IF obs_a.kind # "None"
              THEN ReadShards("obs", plan, 1, obs_a, <<>>)
              ELSE [result |-> "ok", arr |-> obs_a, events |-> <<>>]
        tr == ObservationTrafo(r1.arr, Len(r1.arr.rows))
        ev2 == IF obs_a.kind # "None"
               THEN Append(r1.events, Ev("trafo", "obs", 0, <<>>))
               ELSE r1.events
        obs_t == IF obs_a.kind # "None"
                 THEN [r1.arr EXCEPT !.rows = tr.rows] ELSE r1.arr
        r2 == IF gt_a.kind # "None"
              THEN ReadShards("gt", plan, 1, gt_a, ev2)
              ELSE [result |-> "ok", arr |-> gt_a, events |-> ev2]
    IN
    IF r1.result # "ok"
    THEN Raise(r1.result,
               IF r1.result = "TypeError" THEN "read_obs" ELSE "open_obs",
               Kept(r1.arr), Kept(gt_a), r1.events, plan)
    ELSE IF obs_a.kind # "None" /\ ~tr.ok
    THEN Raise("ValueError", "trafo", Kept(r1.arr), Kept(gt_a), ev2, plan)
    ELSE IF r2.result # "ok"
    THEN Raise(r2.result,
               IF r2.result = "TypeError" THEN "read_gt" ELSE "open_gt",
               Kept(obs_t), Kept(r2.arr), r2.events, plan)
    ELSE [result |-> "ok", site |-> "", obs_arr |-> obs_t, gt_arr |-> r2.arr,
          events |-> r2.events, plan |-> plan]

(***************************************************************************)
(* get_sample(index, part, out)                                            *)
(***************************************************************************)
\* one "with h5py.File ... read_direct(np.asarray(x)[np.newaxis], ...)"
ReadOne(fld, file_index, index_in_file, arr, ev) ==
    ReadShards(fld,
               <<[file |-> file_index,
                  slc_f |-> <<index_in_file, index_in_file + 1, 1>>,
                  slc_d |-> <<0, 1>>]>>,
               1, arr, ev)

\* "if index >= len_part or index < -len_part: raise IndexError"
IndexOutOfBounds(index) == index >= len_part \/ index < -len_part

GetSampleResult(index, out, obs_in, gt_in) ==
    LET obs0 == IF out.given /\ out.obs = "buf" THEN obs_in ELSE NoArr
        gt0 == IF out.given /\ out.gt = "buf" THEN gt_in ELSE NoArr
    IN
    IF IndexOutOfBounds(index)
    THEN Raise("IndexError", "bounds_check", obs0, gt0, <<>>, NoPlan)
    ELSE IF ~out.given
    THEN Raise("TypeError", "unpack_out", obs0, gt0, <<>>, NoPlan)
    ELSE
    LET idx == IF index < 0 THEN index + len_part ELSE index
        file_index == idx \div num_samples_per_file
        index_in_file == idx % num_samples_per_file
        obs == Target(out.obs, obs_in, Arr("new", <<>>, <<Zero("obs")>>))
        gt == Target(out.gt, gt_in, Arr("new", <<>>, <<Zero("gt")>>))
        r1 == IF obs.kind # "None"
              THEN ReadOne("obs", file_index, index_in_file, obs, <<>>)
              ELSE [result |-> "ok", arr |-> obs, events |-> <<>>]
        tr == ObservationTrafo(r1.arr, 1)
        ev2 == IF obs.kind # "None"
               THEN Append(r1.events, Ev("trafo", "obs", 0, <<>>))
               ELSE r1.events
        obs_t == IF obs.kind # "None"
                 THEN [r1.arr EXCEPT !.rows = tr.rows] ELSE r1.arr
        r2 == IF gt.kind # "None"
              THEN ReadOne("gt", file_index, index_in_file, gt, ev2)
              ELSE [result |-> "ok", arr |-> gt, events |-> ev2]
    IN
    IF r1.result # "ok"
    THEN Raise(r1.result,
               IF r1.result = "TypeError" THEN "read_obs" ELSE "open_obs",
               Kept(r1.arr), Kept(gt), r1.events, NoPlan)
    ELSE IF obs.kind # "None" /\ ~tr.ok
    THEN Raise("ValueError", "trafo", Kept(r1.arr), Kept(gt), ev2, NoPlan)
    ELSE IF r2.result # "ok"
    THEN Raise(r2.result,
               IF r2.result = "TypeError" THEN "read_gt" ELSE "open_gt",
               Kept(obs_t), Kept(r2.arr), r2.events, NoPlan)
    ELSE [result |-> "ok", site |-> "", obs_arr |-> obs_t, gt_arr |-> r2.arr,
          events |-> r2.events, plan |-> NoPlan]

(***************************************************************************)
(* The caller: inputs of the calls.                                        *)
(***************************************************************************)
Key(t, a, b, s) == [type |-> t, start |-> a, stop |-> b, step |-> s]
NoKey == Key("none", None, None, None)
OtherKey == Key("other", None, None, None)

Call(o, i, k, out, x, r) ==
    [op |-> o, index |-> i, key |-> k, out |-> out, extra |-> x,
     repeats |-> r]
NoCall == Call("none", 0, NoKey, OutOmitted, 0, 0)

\* integers around the ends of the partition and of its shards
Starts == {-1, 0, 1, num_samples_per_file}
Stops == {-1, 0, 1, num_samples_per_file + 1, len_part, len_part + 1}
Steps == {-1} \cup (1..MaxStep)

RangeKeys ==
    {Key("range", Some(a), Some(b), Some(s)) :
        a \in Starts, b \in Stops, s \in Steps}
SliceKeys ==
    {Key("slice", a, b, s) :
        a \in {None} \cup {Some(x) : x \in Starts},
        b \in {None} \cup {Some(x) : x \in Stops},
        s \in {None, Some(0)} \cup {Some(x) : x \in Steps}}
Keys == RangeKeys \cup SliceKeys \cup {OtherKey}

Indices ==
    {-len_part - 1, -len_part, -1, 0, 1, num_samples_per_file - 1,
     num_samples_per_file, len_part - 1, len_part}

Flags == {"True", "False"}
FlagOuts == {OutOmitted} \cup {Out(TRUE, o, t) : o \in Flags, t \in Flags}
BufOuts == {Out(TRUE, "buf", "buf"), Out(TRUE, "buf", "False"),
            Out(TRUE, "False", "buf")}
UsesBuf(out) == out.given /\ (out.obs = "buf" \/ out.gt = "buf")

\* a buffer of the caller before the first call that uses it (np.zeros)
FreshBuf(fld, shape, cnt) == Arr("out", shape, Fill(Zero(fld), cnt))

\* rows of the caller's buffers for get_samples(key): len(range_) + extra
BufRows(key, extra) ==
    IF key.type \notin {"slice", "range"} THEN 1
    ELSE Max(1, RangeLen(NormalizeKey(key)) + extra)

(***************************************************************************)
(* Storage roots.  A root either holds no dataset or holds the unpacked    *)
(* dataset except the files listed as absent, a file being                 *)
(* <<part, field, shard>>.                                                 *)
(***************************************************************************)
Paths == {"p0", "p1"}
Parts == {"train", "validation", "test"}

\* CONFIG['lodopab_dataset']['data_path'] when the module is imported
ConfiguredPath == "p0"

Dir(p, a) == [present |-> p, absent |-> a]
NoDataset == Dir(FALSE, {})
FullDataset == Dir(TRUE, {})

\* os.path.exists of a shard file under a root holding d
PathExists(d, part, fld, i) == d.present /\ <<part, fld, i>> \notin d.absent

\* self.train_len, scaled to the shard size: two full shards and a residual
TrainLen == 2 * num_samples_per_file + 1

\* self.get_len(part): validation and test are one full shard and a residual
GetLen(part) ==
    IF part = "train" THEN len_part ELSE num_samples_per_file + 1

\* ceil(self.get_len(part) / NUM_SAMPLES_PER_FILE) - 1
LastShard(part) == Ceil(GetLen(part), num_samples_per_file) - 1

\* a presence check that looks at the first shard of each part only
CheckForLodopabFirstOnly(d) ==
    \A part \in Parts : PathExists(d, part, "obs", 0)

\* check_for_lodopab() when DATA_PATH holds d
CheckForLodopab(d) ==
    \A part \in Parts :
       /\ PathExists(d, part, "obs", 0)
       /\ PathExists(d, part, "obs", LastShard(part))

\* shard files of part 'train', of len samples, absent under a root holding d
MissingUnder(d, len) ==
    {f \in {"obs", "gt"} \X (0..(Ceil(len, num_samples_per_file) - 1)) :
        ~PathExists(d, "train", f[1], f[2])}

\* the constructor's arguments
Args(m, c) == [observation_model |-> m, min_photon_count |-> c]

\* min_photon_count stored as requested
StoredMinPhotonCountUnclamped(requested) == requested

\* "if min_photon_count is None or min_photon_count <= 1.: ... else: 1."
StoredMinPhotonCount(requested) ==
    IF requested = None \/ requested[1] <= 10 THEN requested ELSE Some(10)

\* no result table exists
NoTable ==
    /\ reconstructions = <<>>
    /\ test_data = <<>>
    /\ measure_values = <<>>
    /\ lists = <<>>

\* the storage roots and arguments of an accessor that was constructed
\* without a prompt, when the shard files listed in missing are absent
ConstructedUnder ==
    /\ DATA_PATH = ConfiguredPath
    /\ disk = [p \in Paths |->
                  IF p = ConfiguredPath
                  THEN Dir(TRUE, {<<"train", f[1], f[2]>> : f \in missing})
                  ELSE NoDataset]
    /\ args = Args(IF post_log THEN "post-log" ELSE "pre-log",
                   min_photon_count)
    /\ answers = <<>>
    /\ NoTable

(***************************************************************************)
(* State machine.                                                          *)
(***************************************************************************)
Idle ==
    /\ pc = "idle"
    /\ call = NoCall
    /\ result = "none"
    /\ site = ""
    /\ obs_arr = NoArr
    /\ gt_arr = NoArr
    /\ events = <<>>
    /\ range_files = <<>>
    /\ slices_files = <<>>
    /\ slices_data = <<>>

MinPhotonCounts == {None, Some(ORIG_MIN_PHOTON_COUNT), Some(3), Some(10)}
MissingSets == {{}, {<<"obs", 0>>}, {<<"gt", 1>>}}

\* the accessor after construction, over a partition of three shards of
\* nspf samples of which the last holds one sample
Constructed(nspf) ==
    /\ num_samples_per_file = nspf
    /\ len_part = 2 * nspf + 1
    /\ post_log \in BOOLEAN
    /\ min_photon_count \in MinPhotonCounts
    /\ missing \in MissingSets
    /\ Idle
    /\ ConstructedUnder

Init == Constructed(SmallShardSize)

\* the call c ended as r
Returned(c, r) ==
    /\ pc' = "returned"
    /\ call' = c
    /\ result' = r.result
    /\ site' = r.site
    /\ obs_arr' = r.obs_arr
    /\ gt_arr' = r.gt_arr
    /\ events' = r.events
    /\ range_files' = [j \in 1..Len(r.plan) |-> r.plan[j].file]
    /\ slices_files' = [j \in 1..Len(r.plan) |-> r.plan[j].slc_f]
    /\ slices_data' = [j \in 1..Len(r.plan) |-> r.plan[j].slc_d]
    /\ UNCHANGED <<config, construction, evaluation>>

GetSample(index, out) ==
    /\ pc = "idle"
    /\ Returned(Call("get_sample", index, NoKey, out, 0, 0),
                GetSampleResult(index, out, FreshBuf("obs", <<>>, 1),
                                FreshBuf("gt", <<>>, 1)))

GetSamples(key, out, extra, junk) ==
    /\ pc = "idle"
    /\ LET rows == BufRows(key, extra)
       IN Returned(Call("get_samples", 0, key, out, extra, 0),
                   GetSamplesResult(key, out,
                                    FreshBuf("obs", <<rows>>, rows),
                                    FreshBuf("gt", <<rows>>, rows), junk))

\* the caller repeats its last call, passing the same buffers again
GetSampleAgain ==
    /\ pc = "returned"
    /\ call.op = "get_sample"
    /\ result = "ok"
    /\ UsesBuf(call.out)
    /\ call.repeats < MaxRepeats
    /\ Returned([call EXCEPT !.repeats = @ + 1],
                GetSampleResult(call.index, call.out, obs_arr, gt_arr))

GetSamplesAgain(junk) ==
    /\ pc = "returned"
    /\ call.op = "get_samples"
    /\ result = "ok"
    /\ UsesBuf(call.out)
    /\ call.repeats < MaxRepeats
    /\ Returned([call EXCEPT !.repeats = @ + 1],
                GetSamplesResult(call.key, call.out, obs_arr, gt_arr, junk))

\* the caller drops the arrays of its last call
Release ==
    /\ pc = "returned"
    /\ pc' = "idle"
    /\ call' = NoCall
    /\ result' = "none"
    /\ site' = ""
    /\ obs_arr' = NoArr
    /\ gt_arr' = NoArr
    /\ events' = <<>>
    /\ range_files' = <<>>
    /\ slices_files' = <<>>
    /\ slices_data' = <<>>
    /\ UNCHANGED <<config, construction, evaluation>>

\* the caller makes one call while it holds no arrays of an earlier call
CallGetSample ==
    /\ pc = "idle"
    /\ \E index \in Indices, out \in FlagOuts \cup BufOuts :
          GetSample(index, out)

CallGetSamples ==
    /\ pc = "idle"
    /\ \E key \in Keys, out \in FlagOuts, junk \in JunkFills :
          GetSamples(key, out, 0, junk)

CallGetSamplesBuf ==
    /\ pc = "idle"
    /\ \E key \in Keys, out \in BufOuts, extra \in -1..MaxExtraRows,
          junk \in JunkFills :
          GetSamples(key, out, extra, junk)

Next ==
    \/ CallGetSample
    \/ CallGetSamples
    \/ CallGetSamplesBuf
    \/ GetSampleAgain
    \/ \E junk \in JunkFills : GetSamplesAgain(junk)
    \/ Release

Spec == Init /\ [][Next]_vars

(***************************************************************************)
(* SpecSample: get_sample over shards of NUM_SAMPLES_PER_FILE samples.     *)
(***************************************************************************)
InitSample == Constructed(NUM_SAMPLES_PER_FILE)

NextSample ==
    \/ CallGetSample
    \/ GetSampleAgain
    \/ Release

SpecSample == InitSample /\ [][NextSample]_vars

(***************************************************************************)
(* SpecLocator: the shard plan of get_samples for every partition length   *)
(* up to MaxLen, shard size up to MaxShardSize and range                   *)
(* 0 <= start < stop <= length with step in 1..MaxLocStep; all shard files *)
(* are present and the call asks for the ground truth only.                *)
(***************************************************************************)
InitLocator ==
    /\ num_samples_per_file \in 1..MaxShardSize
    /\ len_part \in 1..MaxLen
    /\ post_log = TRUE
    /\ min_photon_count = None
    /\ missing = {}
    /\ pc = "idle"
    /\ \E a \in 0..(len_part - 1), b \in 1..len_part, s \in 1..MaxLocStep :
          /\ a < b
          /\ call = Call("get_samples", 0,
                         Key("range", Some(a), Some(b), Some(s)),
                         Out(TRUE, "False", "True"), 0, 0)
    /\ result = "none"
    /\ site = ""
    /\ obs_arr = NoArr
    /\ gt_arr = NoArr
    /\ events = <<>>
    /\ range_files = <<>>
    /\ slices_files = <<>>
    /\ slices_data = <<>>
    /\ ConstructedUnder

\* the call drawn by InitLocator is made
LocatorCall(junk) ==
    /\ pc = "idle"
    /\ call.op = "get_samples"
    /\ Returned(call, GetSamplesResult(call.key, call.out, NoArr, NoArr, junk))

NextLocator == \E junk \in JunkFills : LocatorCall(junk)

SpecLocator == InitLocator /\ [][NextLocator]_vars

(***************************************************************************)
(* generator(part): every shard of the part is read whole, ground truth    *)
(* first, and the single-sample transform is applied to each observation   *)
(* before it is yielded.  The model consumes the generator to its end.     *)
(***************************************************************************)
\* "file['data'][:]" of shard i
WholeShard(i) == [file |-> i, slc_f |-> <<0, ShardRows(i), 1>>, slc_d |-> <<>>]

\* the samples of shard i as yielded
ShardYield(fld, i) ==
    [k \in 1..ShardRows(i) |->
        LET v == Stored(fld, i * num_samples_per_file + k - 1)
        IN IF fld = "obs" THEN TrafoPixel(v) ELSE v]

RECURSIVE GenFiles(_, _, _, _)
\* "for i in range(num_files)" from shard i on, obs and gt being the
\* samples yielded so far
GenFiles(i, obs, gt, ev) ==
    IF i >= NumFiles
    THEN [result |-> "ok", site |-> "", obs_arr |-> Arr("new", <<>>, obs),
          gt_arr |-> Arr("new", <<>>, gt), events |-> ev, plan |-> NoPlan]
    ELSE IF ~FileExists("gt", i)
    THEN Raise("FileNotFoundError", "open_gt", Arr("new", <<>>, obs),
               Arr("new", <<>>, gt), ev, NoPlan)
    ELSE LET ev1 == WithFile(ev, "gt", WholeShard(i)) IN
    IF ~FileExists("obs", i)
    THEN Raise("FileNotFoundError", "open_obs", Arr("new", <<>>, obs),
               Arr("new", <<>>, gt), ev1, NoPlan)
    ELSE LET ev2 == WithFile(ev1, "obs", WholeShard(i))
             ev3 == ev2 \o [k \in 1..ShardRows(i) |->
                                Ev("trafo", "obs", i, <<>>)]
         IN GenFiles(i + 1, obs \o ShardYield("obs", i),
                     gt \o ShardYield("gt", i), ev3)

\* list(self.generator('train'))
Generator ==
    /\ pc = "idle"
    /\ Returned(Call("generator", 0, NoKey, Out(TRUE, "True", "True"), 0, 0),
                GenFiles(0, <<>>, <<>>, <<>>))

(***************************************************************************)
(* The constructor: LoDoPaBDataset(observation_model, min_photon_count).   *)
(* pc is "new" before __init__ runs, "check" at the test of the while      *)
(* loop, "input_yes_no" while the prompt waits for the user, "raised" when *)
(* __init__ raised, and "idle" when it returned.                           *)
(***************************************************************************)
ObservationModels == {"post-log", "pre-log", "other"}
RequestedCounts == MinPhotonCounts \cup {Some(20)}

callstate == <<call, obs_arr, gt_arr, events, range_files, slices_files,
               slices_data>>

\* no accessor has been constructed
NoAccessor ==
    /\ num_samples_per_file = SmallShardSize
    /\ len_part = 0
    /\ post_log = None
    /\ min_photon_count = None
    /\ missing = {}
    /\ pc = "new"
    /\ call = NoCall
    /\ result = "none"
    /\ site = ""
    /\ obs_arr = NoArr
    /\ gt_arr = NoArr
    /\ events = <<>>
    /\ range_files = <<>>
    /\ slices_files = <<>>
    /\ slices_data = <<>>
    /\ DATA_PATH = ConfiguredPath
    /\ answers = <<>>

\* before LoDoPaBDataset(...) runs, the storage roots being one of roots
New(roots) ==
    /\ NoAccessor
    /\ disk \in roots
    /\ args \in {Args(m, c) : m \in ObservationModels, c \in RequestedCounts}
    /\ NoTable

\* __init__ up to the while loop: the transform configuration and the
\* lengths are set, or the observation model is rejected
Construct ==
    /\ pc = "new"
    /\ IF args.observation_model \notin {"post-log", "pre-log"}
       THEN /\ pc' = "raised"
            /\ result' = "ValueError"
            /\ site' = "observation_model"
            /\ UNCHANGED <<post_log, min_photon_count, len_part, missing>>
       ELSE /\ post_log' = (args.observation_model = "post-log")
            /\ min_photon_count' = StoredMinPhotonCount(args.min_photon_count)
            /\ len_part' = TrainLen
            /\ missing' = MissingUnder(disk[DATA_PATH], TrainLen)
            /\ pc' = "check"
            /\ UNCHANGED <<result, site>>
    /\ UNCHANGED <<num_samples_per_file, callstate, construction, evaluation>>

\* "while not self.check_for_lodopab():" is tested; __init__ returns when
\* the check holds and prompts otherwise
CheckLoop ==
    /\ pc = "check"
    /\ pc' = IF CheckForLodopab(disk[DATA_PATH]) THEN "idle"
             ELSE "input_yes_no"
    /\ UNCHANGED <<config, result, site, callstate, construction, evaluation>>

\* the user answers y: download_lodopab() asks for a path (inp, "" keeps
\* DATA_PATH), downloads and unpacks; a failed download raises
Download(inp, success) ==
    /\ pc = "input_yes_no"
    /\ Len(answers) < MaxPrompts
    /\ LET path == IF inp = "" THEN DATA_PATH ELSE inp
       IN /\ DATA_PATH' = path
          /\ disk' = IF success THEN [disk EXCEPT ![path] = FullDataset]
                     ELSE disk
          /\ missing' = MissingUnder(disk'[path], len_part)
    /\ answers' = Append(answers, [download |-> TRUE, path |-> inp,
                                   success |-> success])
    /\ IF success
       THEN pc' = "check" /\ UNCHANGED <<result, site>>
       ELSE pc' = "raised" /\ result' = "RuntimeError" /\ site' = "download"
    /\ UNCHANGED <<num_samples_per_file, len_part, post_log, min_photon_count,
                   callstate, args, evaluation>>

\* the user answers n and enters another path
InputOtherPath(path) ==
    /\ pc = "input_yes_no"
    /\ Len(answers) < MaxPrompts
    /\ DATA_PATH' = path
    /\ missing' = MissingUnder(disk[path], len_part)
    /\ answers' = Append(answers, [download |-> FALSE, path |-> path,
                                   success |-> FALSE])
    /\ pc' = "check"
    /\ UNCHANGED <<num_samples_per_file, len_part, post_log, min_photon_count,
                   result, site, callstate, disk, args, evaluation>>

(***************************************************************************)
(* SpecConstruct: one construction, over storage roots that hold nothing,  *)
(* the whole dataset, or the dataset without the last test shard.          *)
(***************************************************************************)
InitConstruct ==
    New([Paths -> {NoDataset, FullDataset,
                   Dir(TRUE, {<<"test", "obs", 1>>})}])

NextConstruct ==
    \/ Construct
    \/ CheckLoop
    \/ \E inp \in Paths \cup {""}, success \in BOOLEAN : Download(inp, success)
    \/ \E path \in Paths : InputOtherPath(path)

SpecConstruct == InitConstruct /\ [][NextConstruct]_vars

(***************************************************************************)
(* SpecLife: construction over a storage root that holds the dataset,      *)
(* followed by any calls of get_sample, get_samples and generator.         *)
(***************************************************************************)
InitLife ==
    New({[p \in Paths |-> IF p = ConfiguredPath THEN d ELSE NoDataset] :
            d \in {FullDataset, Dir(TRUE, {<<"train", "gt", 1>>})}})

NextLife ==
    \/ Construct
    \/ CheckLoop
    \/ CallGetSample
    \/ CallGetSamples
    \/ Generator
    \/ Release

SpecLife == InitLife /\ [][NextLife]_vars

(***************************************************************************)
(* src/evaluation.py: EvaluationTaskTable.run and EvaluationResultTable.   *)
(* A Python list is an object: measure_values holds the ids of its entries *)
(* and lists maps an id to the values of that list, so that                *)
(* "[[]] * n" is n times the id of one list.  Indices are 0-based.         *)
(***************************************************************************)
TestDatas == {"t1", "t2"}
MeasureLists == {<<>>, <<"l2">>, <<"l2", "m">>}

\* task['reconstructor'].reconstruct(test_data.observation)
Reconstruct(reconstructor, td) == [by |-> reconstructor, of |-> td]

\* measure.apply(reconstruction, ground_truth)
Apply(measure, reconstruction, td) ==
    [measure |-> measure, reconstruction |-> reconstruction,
     ground_truth |-> td]

\* the entry "[]" of the default test_data
EmptyList == "[]"

Task(td, r, ms) == [test_data |-> td, reconstructor |-> r, measures |-> ms]

\* task tables of up to MaxTasks tasks
TaskTables ==
    UNION {[1..n -> {Task(td, "r", ms) :
                        td \in TestDatas, ms \in {<<>>, <<"l2">>}}] :
              n \in 0..MaxTasks}

\* the index argument of apply_measures
Idx(k, v) == [kind |-> k, val |-> v]
IndexArgs ==
    {Idx("None", 0), Idx("other", 0), Idx("list", <<0, 1>>)}
    \cup {Idx("scalar", i) : i \in -1..MaxTasks}

EvalCall(o, ms, idx) == [op |-> o, measures |-> ms, index |-> idx]

accessor == <<config, pc, site, obs_arr, gt_arr, events, range_files,
              slices_files, slices_data, construction>>

\* EvaluationTaskTable(tasks=tasks).run(save_reconstructions)
Run(tasks, save_reconstructions) ==
    /\ reconstructions' =
          [j \in 1..Len(tasks) |->
              IF save_reconstructions
              THEN Some(Reconstruct(tasks[j].reconstructor,
                                    tasks[j].test_data))
              ELSE None]
    /\ test_data' = [j \in 1..Len(tasks) |-> tasks[j].test_data]
    /\ measure_values' = [j \in 1..Len(tasks) |-> j]
    /\ lists' =
          [j \in 1..Len(tasks) |->
              [k \in 1..Len(tasks[j].measures) |->
                  Apply(tasks[j].measures[k],
                        Reconstruct(tasks[j].reconstructor,
                                    tasks[j].test_data),
                        tasks[j].test_data)]]
    /\ call' = EvalCall("run", <<>>, Idx("None", 0))
    /\ result' = "ok"
    /\ UNCHANGED accessor

\* EvaluationResultTable(reconstructions, test_data, measure_values); an
\* argument that is None or an empty list takes the default
NewResultTable(recs, tds, mvs) ==
    LET n == Len(recs)
    IN /\ reconstructions' = recs
       /\ test_data' = IF tds = <<>> THEN [j \in 1..n |-> EmptyList] ELSE tds
       /\ measure_values' = IF mvs = <<>> THEN [j \in 1..n |-> 1]
                            ELSE [j \in 1..Len(mvs) |-> j]
       /\ lists' = IF mvs = <<>> THEN (IF n = 0 THEN <<>> ELSE << <<>> >>)
                   ELSE mvs
       /\ call' = EvalCall("EvaluationResultTable", <<>>, Idx("None", 0))
       /\ result' = "ok"
       /\ UNCHANGED accessor

\* "indexes" of apply_measures
Indexes(index) ==
    IF index.kind = "None"
    THEN [j \in 1..Len(reconstructions) |-> j - 1]
    ELSE IF index.kind = "scalar" THEN <<index.val>>
    ELSE index.val

\* position (from 1) of the entry seq[i] of a Python list of n entries, or 0
\* when seq[i] raises IndexError
Position(i, n) ==
    IF i >= 0 /\ i < n THEN i + 1
    ELSE IF i < 0 /\ i >= -n THEN i + n + 1
    ELSE 0

\* the values "for measure in measures: ...append(measure.apply(...))" adds
NewValues(measures, p) ==
    [k \in 1..Len(measures) |->
        Apply(measures[k], reconstructions[p][1], test_data[p])]

RECURSIVE ApplyFrom(_, _, _, _)
\* "for i in indexes" from the k-th index on, heap being the list objects
\* so far: [result, lists]
ApplyFrom(measures, indexes, k, heap) ==
    IF k > Len(indexes) THEN [result |-> "ok", lists |-> heap]
    ELSE LET p == Position(indexes[k], Len(reconstructions))
         IN IF p = 0 \/ p > Len(test_data)
            THEN [result |-> "IndexError", lists |-> heap]
            ELSE IF test_data[p] = EmptyList
            THEN [result |-> "AttributeError", lists |-> heap]
            ELSE IF measures # <<>> /\ reconstructions[p] = None
            THEN [result |-> "AttributeError", lists |-> heap]
            ELSE IF measures # <<>> /\ p > Len(measure_values)
            THEN [result |-> "IndexError", lists |-> heap]
            ELSE IF measures = <<>>
            THEN ApplyFrom(measures, indexes, k + 1, heap)
            ELSE ApplyFrom(measures, indexes, k + 1,
                           [heap EXCEPT ![measure_values[p]] =
                               @ \o NewValues(measures, p)])

\* EvaluationResultTable.apply_measures(measures, index)
ApplyMeasures(measures, index) ==
    /\ LET r == IF index.kind = "other"
                THEN [result |-> "ValueError", lists |-> lists]
                ELSE ApplyFrom(measures, Indexes(index), 1, lists)
       IN /\ \A id \in 1..Len(r.lists) : Len(r.lists[id]) <= MaxValues
          /\ lists' = r.lists
          /\ result' = r.result
    /\ call' = EvalCall("apply_measures", measures, index)
    /\ UNCHANGED <<reconstructions, test_data, measure_values, accessor>>

(***************************************************************************)
(* SpecEval: result tables produced by run or constructed directly, and    *)
(* measures applied to them afterwards.                                    *)
(***************************************************************************)
InitEval ==
    /\ NoAccessor
    /\ disk = [p \in Paths |-> NoDataset]
    /\ args = Args("post-log", None)
    /\ NoTable

\* reconstructions, test data and measure values a caller passes to
\* EvaluationResultTable for n entries; <<>> is an omitted argument
GivenReconstructions(n) == [j \in 1..n |-> Some(Reconstruct("r", "t1"))]
GivenTestData(n) == {<<>>} \cup [1..n -> TestDatas]
GivenMeasureValues(n) == {<<>>, [j \in 1..n |-> <<>>]}

NextEval ==
    \/ \E tasks \in TaskTables, save_reconstructions \in BOOLEAN :
          Run(tasks, save_reconstructions)
    \/ \E n \in 0..MaxTasks :
          \E tds \in GivenTestData(n), mvs \in GivenMeasureValues(n) :
             NewResultTable(GivenReconstructions(n), tds, mvs)
    \/ \E measures \in MeasureLists, index \in IndexArgs :
          ApplyMeasures(measures, index)

SpecEval == InitEval /\ [][NextEval]_vars

(***************************************************************************)
(* Claims.                                                                 *)
(***************************************************************************)
ReturnedFrom(op) == pc = "returned" /\ call.op = op

\* the key is a range with 0 <= start < stop <= length and step >= 1
ValidRangeKey(key) ==
    /\ key.type = "range"
    /\ 0 <= key.start[1]
    /\ key.start[1] < key.stop[1]
    /\ key.stop[1] <= len_part
    /\ key.step[1] >= 1

\* logical indices the j-th planned slice selects of its shard
Selected(j) ==
    LET offs == SliceOffsets(slices_files[j][1], slices_files[j][2],
                             slices_files[j][3], ShardRows(range_files[j]))
    IN [k \in 1..Len(offs) |->
           range_files[j] * num_samples_per_file + offs[k]]

RECURSIVE ConcatSelected(_)
\* the selections of the planned slices from the j-th on, in shard order
ConcatSelected(j) ==
    IF j > Len(range_files) THEN <<>>
    ELSE Selected(j) \o ConcatSelected(j + 1)

\* the destination slices tile 0..len(range_) in shard order, each as long
\* as the selection it receives
DestinationsTile ==
    /\ \A j \in 1..Len(slices_data) :
          /\ slices_data[j][1] = (IF j = 1 THEN 0 ELSE slices_data[j - 1][2])
          /\ slices_data[j][2] - slices_data[j][1] = Len(Selected(j))

\* C1: for every partition length, shard size and range with
\* 0 <= start < stop <= length and step >= 1, the slices get_samples plans,
\* applied to the shards and concatenated in shard order into the destination
\* slices, give exactly start, start+step, ... below stop: the planned
\* selections concatenate to the range, the destination slices tile the
\* result, and the ground truth read this way holds the stored value of
\* each index of the range, in order.
C1_LocatorRoundTrip ==
    (ReturnedFrom("get_samples") /\ ValidRangeKey(call.key)
       /\ call.out = Out(TRUE, "False", "True") /\ missing = {})
    => LET r == NormalizeKey(call.key)
       IN /\ result = "ok"
          /\ ConcatSelected(1) = RangeList(r)
          /\ DestinationsTile
          /\ gt_arr.rows = [k \in 1..RangeLen(r) |->
                               Stored("gt", RangeList(r)[k])]

\* C1 witness: a range over three shards whose step does not divide the
\* shard size has been read
C1_Witness ==
    /\ ReturnedFrom("get_samples")
    /\ ValidRangeKey(call.key)
    /\ result = "ok"
    /\ Len(range_files) >= 3
    /\ call.key.step[1] > 1
    /\ call.key.step[1] < num_samples_per_file
    /\ num_samples_per_file % call.key.step[1] # 0
    /\ Len(gt_arr.rows) >= 3

\* a range whose step exceeds the shard size, so that a shard between the
\* first and the last holds no selected index, has been read
C1_WitnessBigStep ==
    /\ ReturnedFrom("get_samples")
    /\ ValidRangeKey(call.key)
    /\ result = "ok"
    /\ call.key.step[1] > num_samples_per_file
    /\ \E j \in 1..Len(range_files) : Len(Selected(j)) = 0

\* the index is one get_sample accepts
ValidIndex(index) == -len_part <= index /\ index < len_part

\* the key is a slice or range with a positive step selecting, after the
\* normalisation of negative slice bounds, at least one index, all of them
\* in [0, length)
ValidKey(key) ==
    /\ key.type \in {"slice", "range"}
    /\ key.step # Some(0)
    /\ LET r == NormalizeKey(key)
       IN /\ r.step > 0
          /\ RangeLen(r) > 0
          /\ r.start >= 0
          /\ RangeLast(r) < len_part

ValidCall ==
    \/ call.op = "get_sample" /\ ValidIndex(call.index)
    \/ call.op = "get_samples" /\ ValidKey(call.key)

\* events of the call that touch a shard file of the field
FileEvents(fld) ==
    {j \in 1..Len(events) : events[j].ev = "open" /\ events[j].fld = fld}

\* C2 (as claimed): for any valid index i and every transform
\* configuration, get_samples(range(i, i+1)) succeeds, get_sample(i)
\* succeeds, and both return the same observation and ground truth values.
C2_SingleEqualsRange ==
    (/\ ReturnedFrom("get_samples")
     /\ call.key.type = "range"
     /\ call.key.step = Some(1)
     /\ ValidKey(call.key)
     /\ call.key.stop[1] = call.key.start[1] + 1
     /\ call.out.given /\ ~UsesBuf(call.out)
     /\ missing = {})
    => LET s == GetSampleResult(call.key.start[1], call.out, NoArr, NoArr)
       IN /\ result = "ok"
          /\ s.result = "ok"
          /\ obs_arr.rows = s.obs_arr.rows
          /\ gt_arr.rows = s.gt_arr.rows

\* C3 (as claimed): get_sample(index) succeeds exactly when
\* -length <= index < length and fails with an index error otherwise; on
\* success every read is of shard n \div 128 at offset n % 128 in [0, 128),
\* n the index counted from the end when negative.
C3_IndexBounds ==
    (ReturnedFrom("get_sample") /\ missing = {})
    => LET n == IF call.index < 0 THEN call.index + len_part ELSE call.index
           off == n % num_samples_per_file
       IN /\ (result = "ok") <=> ValidIndex(call.index)
          /\ ~ValidIndex(call.index) => result = "IndexError"
          /\ result = "ok" =>
                /\ 0 <= off /\ off < NUM_SAMPLES_PER_FILE
                /\ \A j \in 1..Len(events) :
                      events[j].ev = "open" =>
                         /\ events[j].file = n \div NUM_SAMPLES_PER_FILE
                         /\ events[j].slc = <<off, off + 1, 1>>

\* C4 (as claimed): get_samples fails with an index error, before opening
\* any shard file, for every key with a positive step whose selected
\* indices, after normalisation of negative slice bounds, do not all lie in
\* [0, length).
C4_OutOfRangeKeyRejected ==
    (/\ ReturnedFrom("get_samples")
     /\ call.out.given
     /\ missing = {}
     /\ call.key.type \in {"slice", "range"}
     /\ NormalizeKey(call.key).step > 0
     /\ \E k \in 1..RangeLen(NormalizeKey(call.key)) :
           RangeList(NormalizeKey(call.key))[k] \notin 0..(len_part - 1))
    => (result = "IndexError" /\ events = <<>>)

\* C5: get_samples with a key (range or slice) whose step is negative always
\* fails with the ValueError of the negative-step check, whatever start and
\* stop are, and opens no shard file.
C5_NegativeStepRejected ==
    (/\ ReturnedFrom("get_samples")
     /\ call.key.type \in {"slice", "range"}
     /\ call.key.step # None
     /\ call.key.step[1] < 0)
    => (result = "ValueError" /\ site = "negative_step" /\ events = <<>>)

\* C5 witness: a negative-step range that selects nothing was rejected with
\* both fields asked for (range(0, 1, -1) is empty)
C5_Witness ==
    /\ ReturnedFrom("get_samples")
    /\ call.key = Key("range", Some(0), Some(1), Some(-1))
    /\ call.out = Out(TRUE, "True", "True")
    /\ result = "ValueError"

\* C6 (as claimed): a key with step 0 is rejected with an error and never
\* returns data (here: with both fields asked for).
C6_ZeroStepRejected ==
    (/\ ReturnedFrom("get_samples")
     /\ call.key.step = Some(0)
     /\ call.out = Out(TRUE, "True", "True"))
    => result # "ok"

\* C7 (as claimed): with out omitted, get_sample for a valid index and
\* get_samples for a valid key succeed and return a newly created
\* observation and a newly created ground truth.
C7_DefaultOutCreatesBoth ==
    (/\ pc = "returned"
     /\ ~call.out.given
     /\ ValidCall
     /\ missing = {})
    => (result = "ok" /\ obs_arr.kind = "new" /\ gt_arr.kind = "new")

\* shards holding a sample the call selects
NeededFiles ==
    IF call.op = "get_sample"
    THEN {(IF call.index < 0 THEN call.index + len_part ELSE call.index)
             \div num_samples_per_file}
    ELSE LET r == NormalizeKey(call.key)
         IN {RangeList(r)[k] \div num_samples_per_file :
                k \in 1..RangeLen(r)}

Requested(fld) ==
    call.out.given /\ (IF fld = "obs" THEN call.out.obs ELSE call.out.gt)
                          # "False"

\* C8 (as claimed): a valid request for a field of which a needed shard
\* file is absent ends in the file-not-found error (caller's arrays, if
\* any, being large enough).
C8_MissingShardReported ==
    (/\ pc = "returned"
     /\ ValidCall
     /\ call.extra >= 0
     /\ \E fld \in {"obs", "gt"}, i \in NeededFiles :
           Requested(fld) /\ <<fld, i>> \in missing)
    => result = "FileNotFoundError"

\* C9: when a field's flag is False, nothing is returned or kept for that
\* field and no shard file of the field is opened; the transform runs only
\* when the observation is asked for; no value of the ground truth array
\* has been through the transform.
C9_PerFieldPolicy ==
    pc = "returned" =>
       /\ (call.out.given /\ call.out.obs = "False") =>
             (obs_arr = NoArr /\ FileEvents("obs") = {})
       /\ (call.out.given /\ call.out.gt = "False") =>
             (gt_arr = NoArr /\ FileEvents("gt") = {})
       /\ (\E j \in 1..Len(events) : events[j].ev = "trafo") =>
             Requested("obs")
       /\ \A k \in 1..Len(gt_arr.rows) :
             /\ gt_arr.rows[k].fld = "gt"
             /\ gt_arr.rows[k].n = 0
             /\ gt_arr.rows[k].tag \notin {"postfloor", "prefloor"}

\* C9 witness: under the pre-log model with a custom floor, a read of
\* several samples returned the ground truth alone
C9_Witness ==
    /\ ReturnedFrom("get_samples")
    /\ ~post_log /\ ~DefaultFloor
    /\ call.out = Out(TRUE, "False", "True")
    /\ result = "ok"
    /\ Len(gt_arr.rows) >= 2
    /\ obs_arr = NoArr

\* C10 (as claimed): repeating a successful call with the same arguments
\* and the same caller-supplied arrays leaves the arrays as the first call
\* left them.
C10_ReadsIdempotent ==
    [][(/\ pc = "returned"
        /\ pc' = "returned"
        /\ result = "ok"
        /\ call'.repeats = call.repeats + 1)
       => (obs_arr' = obs_arr /\ gt_arr' = gt_arr)]_vars

\* shard files open after the first j events of the call
OpenCount(j) ==
    Cardinality({k \in 1..j : events[k].ev = "open"})
    - Cardinality({k \in 1..j : events[k].ev = "close"})

\* C11: during any get_sample or get_samples call at most one shard file is
\* open at a time, and when the call ends, by returning or by failing at any
\* point, no shard file opened by it remains open.
C11_FilesScoped ==
    pc = "returned" =>
       /\ \A j \in 0..Len(events) : OpenCount(j) \in {0, 1}
       /\ OpenCount(Len(events)) = 0

\* C11 witness: a read of both fields over two shards failed at the second
\* ground truth shard, after the observation shards and the first ground
\* truth shard had been opened
C11_Witness ==
    /\ ReturnedFrom("get_samples")
    /\ result = "FileNotFoundError"
    /\ site = "open_gt"
    /\ Cardinality(FileEvents("obs")) >= 2
    /\ Cardinality(FileEvents("gt")) >= 1

\* a read failed inside read_direct, after its shard file had been opened
C11_WitnessReadError ==
    /\ pc = "returned"
    /\ result = "TypeError"
    /\ site = "read_obs"
    /\ FileEvents("obs") # {}

\* logical indices the call selects, in the order of the returned rows
SelectedIndices ==
    IF call.op = "get_sample"
    THEN <<IF call.index < 0 THEN call.index + len_part ELSE call.index>>
    ELSE RangeList(NormalizeKey(call.key))

\* C14: with post_log = false and a custom noise floor (min_photon_count
\* neither None nor the original floor), the mask is computed on the raw
\* stored values (stored >= thres0) before any exponentiation: in the
\* observation a call returns, the entry of every selected sample whose
\* stored value is at or above the threshold is min_photon_count / 4096,
\* and every other entry is exp(-stored * MU_MAX) of its stored value,
\* exponentiated once.
C14_PreLogCustomFloor ==
    (/\ pc = "returned"
     /\ result = "ok"
     /\ ~post_log
     /\ ~DefaultFloor
     /\ Requested("obs"))
    => \A k \in 1..Len(SelectedIndices) :
          obs_arr.rows[k] =
             (IF StoredClass(SelectedIndices[k]) = "big"
              THEN PreFloor
              ELSE Exp(Stored("obs", SelectedIndices[k])))

\* C14 witness: a pre-log read with a custom floor returned both a masked
\* and an unmasked entry
C14_Witness ==
    /\ ReturnedFrom("get_samples")
    /\ result = "ok"
    /\ ~post_log
    /\ ~DefaultFloor
    /\ \E k \in 1..Len(obs_arr.rows) : obs_arr.rows[k] = PreFloor
    /\ \E k \in 1..Len(obs_arr.rows) :
          obs_arr.rows[k].tag = "raw" /\ obs_arr.rows[k].n = 1

\* opens of shard i of the field during the call
ReadsOf(fld, i) == {j \in FileEvents(fld) : events[j].file = i}

\* C15 (as claimed): for every valid range with step >= 1, a get_samples
\* call that succeeds has issued, per requested field, exactly one read for each shard that holds a
\* selected index and no read for any shard that holds none, and every
\* intra-shard slice it reads satisfies 0 <= start < stop <= shard size.
C15_OneReadPerTouchedShard ==
    (/\ ReturnedFrom("get_samples")
     /\ ValidRangeKey(call.key)
     /\ result = "ok")
    => \A fld \in {"obs", "gt"} :
          Requested(fld) =>
             /\ \A i \in NeededFiles : Cardinality(ReadsOf(fld, i)) = 1
             /\ \A j \in FileEvents(fld) :
                   /\ events[j].file \in NeededFiles
                   /\ 0 <= events[j].slc[1]
                   /\ events[j].slc[1] < events[j].slc[2]
                   /\ events[j].slc[2] <= ShardRows(events[j].file)

\* the first and the last observation shard of each of train, validation and
\* test exist under the storage root
PresenceHolds ==
    \A part \in Parts :
       /\ PathExists(disk[DATA_PATH], part, "obs", 0)
       /\ PathExists(disk[DATA_PATH], part, "obs", LastShard(part))

\* the j-th answer of the user was a download that failed
FailedDownload(j) == answers[j].download /\ ~answers[j].success

\* C12: construction completes normally only in a state where the presence
\* check holds; whenever the check is made and does not hold the constructor
\* prompts (for a download or another path), it prompts only then, and a
\* failed download is the last answer it takes: the construction attempt
\* ends there with RuntimeError.
C12_PresenceGatesConstruction ==
    /\ [](/\ pc = "idle" => PresenceHolds
          /\ pc = "input_yes_no" => ~PresenceHolds
          /\ \A j \in 1..Len(answers) :
                FailedDownload(j) =>
                   /\ j = Len(answers)
                   /\ pc = "raised"
                   /\ result = "RuntimeError")
    /\ [][(pc = "check" /\ ~PresenceHolds) => pc' = "input_yes_no"]_vars

\* C12 witness: construction completed after the user first named a root
\* without the dataset and then had the dataset downloaded
C12_Witness ==
    /\ pc = "idle"
    /\ Len(answers) = 2
    /\ ~answers[1].download
    /\ answers[2].download /\ answers[2].success
    /\ PresenceHolds

\* a construction attempt ended with the first failed download, after an
\* earlier prompt had been answered with another path
C12_WitnessFailedDownload ==
    /\ pc = "raised"
    /\ result = "RuntimeError"
    /\ Len(answers) = 2
    /\ FailedDownload(2)
    /\ ~PresenceHolds

\* the accessor exists: __init__ returned
Exists == pc \in {"idle", "returned"}

\* C13: after construction min_photon_count is None or at most 1 (a
\* requested value above 1 is stored as 1; tenths here), post_log is true
\* for 'post-log' and false for 'pre-log', any other selector makes the
\* constructor raise, and no get_sample, get_samples or generator call
\* changes post_log or min_photon_count.
C13_ConfigFixed ==
    /\ [](Exists =>
             /\ min_photon_count = None \/ min_photon_count[1] <= 10
             /\ (args.min_photon_count # None
                   /\ args.min_photon_count[1] > 10)
                => min_photon_count = Some(10)
             /\ args.observation_model = "post-log" => post_log = TRUE
             /\ args.observation_model = "pre-log" => post_log = FALSE)
    /\ []((pc # "new" /\ args.observation_model \notin {"post-log", "pre-log"})
             => (pc = "raised" /\ result = "ValueError"))
    /\ [][Exists => (post_log' = post_log
                       /\ min_photon_count' = min_photon_count)]_vars

\* C13 witness: an accessor constructed with min_photon_count = 2 under the
\* pre-log model has served a whole generator run
C13_Witness ==
    /\ ReturnedFrom("generator")
    /\ result = "ok"
    /\ args = Args("pre-log", Some(20))
    /\ min_photon_count = Some(10)
    /\ post_log = FALSE
    /\ Len(obs_arr.rows) = len_part

\* measure_values[i] of the table, indices from 0
MeasureValuesAt(i) == lists[measure_values[i + 1]]

\* C16 (as claimed): for a result table holding several reconstructions,
\* produced by run or constructed directly with reconstructions and
\* test_data but no measure_values, apply_measures(measures, index=i)
\* appends the new measure values to measure_values[i] only and leaves the
\* measure values of every other index unchanged.
C16_ApplyAtIndexOnly ==
    [][(/\ call'.op = "apply_measures"
        /\ call'.index.kind = "scalar"
        /\ call'.index.val \in 0..(Len(reconstructions) - 1)
        /\ result' = "ok"
        /\ Len(reconstructions) >= 2)
       => LET i == call'.index.val
          IN /\ lists'[measure_values'[i + 1]] =
                   MeasureValuesAt(i) \o NewValues(call'.measures, i + 1)
             /\ \A j \in 0..(Len(reconstructions) - 1) :
                   j # i => lists'[measure_values'[j + 1]] = MeasureValuesAt(j)
      ]_vars

====
